---- MODULE Spec2Model ----
(***************************************************************************)
(* Model of the stock-data tool servers (src/main.py, src/stock-mcp/main.py *)
(* and their tools) and of the discovery endpoint of src/bridge/main.py.    *)
(*                                                                          *)
(* A server process imports its main module (the register_* calls run in    *)
(* program order), then serves calls.  A call is resolved by name, its      *)
(* arguments are validated against the Field annotations of the handler,    *)
(* the handler runs up to its backend request, the backend answers (or      *)
(* fails), and the handler finishes with a result or an error.              *)
(***************************************************************************)
EXTENDS Integers, Sequences, FiniteSets, TLC

VARIABLES
    server,      \* which main module this process runs: "root" or "stock-mcp"
    pc,          \* "import" (module level statements), "serving", "failed"
    regIdx,      \* number of register_* statements of the main module executed
    registry,    \* tool name -> handler, as held by the FastMCP instance
    phase,       \* position of the call being served: "idle", "received",
                 \* "resolved", "validated", "awaiting", "done"
    tool,        \* name the caller asked for
    args,        \* raw arguments of the call
    req,         \* arguments after validation (defaults applied)
    backendLog,  \* backend requests issued during the current call, in order
    answer,      \* what the backend answered to the request of this call
    outcome,     \* "none", "ok" or the name of the error the call ended with
    result,      \* the value returned by the handler
    file,        \* the instructions.md file beside the bridge
    response,    \* the last response of GET /.well-known/wingman
    calls        \* the calls the transport has dispatched at once: call id ->
                 \* the locals of that call (used when calls overlap)

vars == <<server, pc, regIdx, registry, phase, tool, args, req, backendLog,
          answer, outcome, result, file, response, calls>>

callVars == <<phase, tool, args, req, backendLog, answer, outcome, result, calls>>
bootVars == <<server, pc, regIdx, registry>>
bridgeVars == <<file, response>>

-----------------------------------------------------------------------------
(* Bounds of the model.                                                    *)

\* longest symbol drawn letter by letter from SymAlphabet
MaxSymLen == 2
\* most rows in a backend history frame
MaxRows == 2
\* longest content of the instructions file, in characters
MaxFileLen == 3
\* most calls in flight at once
MaxCalls == 2

-----------------------------------------------------------------------------
(* Values.  Python values that the handlers pass around are tagged records: *)
(* a number, a string, None, NaN (a pandas missing cell), or Absent (the    *)
(* caller did not supply the argument).                                     *)

Num(n) == [t |-> "num", n |-> n, s |-> ""]
Str(s) == [t |-> "str", n |-> 0, s |-> s]
None == [t |-> "none", n |-> 0, s |-> ""]
NaN == [t |-> "nan", n |-> 0, s |-> ""]
Absent == [t |-> "absent", n |-> 0, s |-> ""]

\* A text argument whose characters matter (symbol, chart_type): a sequence
\* of one-character strings, or not given at all.
Given(chars) == [given |-> TRUE, chars |-> chars]
NotGiven == [given |-> FALSE, chars |-> <<>>]

LowerAZ == <<"a","b","c","d","e","f","g","h","i","j","k","l","m",
             "n","o","p","q","r","s","t","u","v","w","x","y","z">>
UpperAZ == <<"A","B","C","D","E","F","G","H","I","J","K","L","M",
             "N","O","P","Q","R","S","T","U","V","W","X","Y","Z">>

IndexIn(seq, c) == CHOOSE i \in 1..Len(seq) : seq[i] = c
IsIn(seq, c) == \E i \in 1..Len(seq) : seq[i] = c

\* str.upper() and str.lower(), character by character; characters that are
\* not letters are left as they are.
upper(chars) ==
    [i \in 1..Len(chars) |->
        IF IsIn(LowerAZ, chars[i]) THEN UpperAZ[IndexIn(LowerAZ, chars[i])]
        ELSE chars[i]]

lower(chars) ==
    [i \in 1..Len(chars) |->
        IF IsIn(UpperAZ, chars[i]) THEN LowerAZ[IndexIn(UpperAZ, chars[i])]
        ELSE chars[i]]

-----------------------------------------------------------------------------
(* Startup: the module level statements of the two main modules.            *)

register_stock_info == [name |-> "get_stock_info", handler |-> "get_stock_info"]
register_stock_history ==
    [name |-> "get_historical_prices", handler |-> "get_historical_prices"]
register_stock_chart ==
    [name |-> "render_stock_chart", handler |-> "render_stock_chart"]
register_stock_factsheet == [name |-> "get_factsheet", handler |-> "get_factsheet"]

\* fault variant: the disclaimer tool registered under another name
register_stock_disclaimer_misnamed ==
    [name |-> "disclaimer", handler |-> "get_disclaimer"]
register_stock_disclaimer ==
    [name |-> "get_disclaimer", handler |-> "get_disclaimer"]

Servers == {"root", "stock-mcp"}

\* The register_* statements of a main module, in program order.
Startup(srv) ==
    IF srv = "root"
    THEN <<register_stock_info, register_stock_history, register_stock_chart>>
    ELSE <<register_stock_info, register_stock_history, register_stock_chart,
           register_stock_factsheet, register_stock_disclaimer>>

\* fault variant: mcp.run() placed before the last register_* statement
StartupCompleteEarly == regIdx >= Len(Startup(server)) - 1
\* mcp.run() is the last statement of the module: it is reached when every
\* register_* statement before it has run.
StartupComplete == regIdx = Len(Startup(server))

\* The framework's registration of one tool under its name.
register(reg, d) ==
    IF d.name \in DOMAIN reg
    THEN [ok |-> FALSE, reg |-> reg]
    ELSE [ok |-> TRUE,
          reg |-> [n \in DOMAIN reg \cup {d.name} |->
                      IF n = d.name THEN d.handler ELSE reg[n]]]

\* The framework's lookup of a tool by name.
resolve(reg, name) ==
    IF name \in DOMAIN reg
    THEN [ok |-> TRUE, handler |-> reg[name]]
    ELSE [ok |-> FALSE, handler |-> ""]

EmptyRegistry == [n \in {} |-> ""]

-----------------------------------------------------------------------------
(* Parameter validation, from the Field annotations of the handlers.        *)

\* min_length and max_length of the symbol parameter
MinLength == 1
MaxLength == 10

Handlers == {"get_stock_info", "get_historical_prices", "render_stock_chart",
             "get_factsheet", "get_disclaimer"}

\* The parameters each handler declares.
Params(h) ==
    CASE h = "get_stock_info" -> {"symbol"}
      [] h = "get_historical_prices" ->
            {"symbol", "period", "interval", "start", "end"}
      [] h = "render_stock_chart" ->
            {"symbol", "chart_type", "period", "interval", "start", "end"}
      [] h = "get_factsheet" -> {"symbol"}
      [] OTHER -> {}

\* fault variant: a pattern that lets lowercase letters through
MatchesSymbolLowerToo(chars) ==
    /\ Len(chars) >= MinLength
    /\ Len(chars) <= MaxLength
    /\ \A i \in 1..Len(chars) : IsIn(UpperAZ, chars[i]) \/ IsIn(LowerAZ, chars[i])
\* pattern=r"^[A-Z]{1,10}$" together with min_length=1, max_length=10
MatchesSymbol(chars) ==
    /\ Len(chars) >= MinLength
    /\ Len(chars) <= MaxLength
    /\ \A i \in 1..Len(chars) : IsIn(UpperAZ, chars[i])

\* symbol has no default: it must be given, and it must match.
SymbolValid(a) == a.symbol.given /\ MatchesSymbol(a.symbol.chars)

\* Defaults of the optional parameters, per handler.
DefaultPeriod(h) == IF h = "render_stock_chart" THEN Str("1mo") ELSE Str("1y")
DefaultInterval == Str("1d")
DefaultChartType == Given(<<"c","a","n","d","l","e","s","t","i","c","k">>)

\* period and interval are str: null is not accepted for them.
TypesValid(h, a) ==
    /\ "period" \in Params(h) => a.period.t \in {"str", "absent"}
    /\ "interval" \in Params(h) => a.interval.t \in {"str", "absent"}

\* The arguments as the handler receives them: each absent optional replaced
\* by its default, everything given passed on as given.
Normalized(h, a) ==
    [symbol |-> a.symbol.chars,
     chart_type |-> IF a.chart_type.given THEN a.chart_type.chars
                    ELSE DefaultChartType.chars,
     period |-> IF a.period.t = "absent" THEN DefaultPeriod(h) ELSE a.period,
     interval |-> IF a.interval.t = "absent" THEN DefaultInterval ELSE a.interval,
     start |-> IF a.start.t = "absent" THEN None ELSE a.start,
     end |-> IF a.end.t = "absent" THEN None ELSE a.end]

validate(h, a) ==
    IF "symbol" \in Params(h) /\ ~SymbolValid(a)
    THEN [ok |-> FALSE, req |-> Normalized(h, a)]
    ELSE IF ~TypesValid(h, a)
    THEN [ok |-> FALSE, req |-> Normalized(h, a)]
    ELSE [ok |-> TRUE, req |-> Normalized(h, a)]

-----------------------------------------------------------------------------
(* Backend requests.                                                        *)

NoParams == [k \in {} |-> None]

QuoteRequest(ticker) ==
    [kind |-> "quote", ticker |-> ticker, params |-> NoParams, url |-> ""]
HistoryRequest(ticker, params) ==
    [kind |-> "history", ticker |-> ticker, params |-> params, url |-> ""]
DocumentRequest(url) ==
    [kind |-> "document", ticker |-> <<>>, params |-> NoParams, url |-> url]

\* str(x) inside an f-string
PyStr(v) == IF v.t = "none" THEN "None" ELSE v.s

\* fault variant: the period still sent along with a date range
hist_yf_params_keep_period(r) ==
    IF r.start # None \/ r.end # None
    THEN [k \in {"start", "end", "interval", "period"} |-> r[k]]
    ELSE [k \in {"period", "interval"} |-> r[k]]
\* get_historical_prices: the request parameters and the period reported
hist_yf_params(r) ==
    IF r.start # None \/ r.end # None
    THEN [k \in {"start", "end", "interval"} |-> r[k]]
    ELSE [k \in {"period", "interval"} |-> r[k]]

hist_actual_period(r) ==
    IF r.start # None \/ r.end # None
    THEN "start=" \o PyStr(r.start) \o ", end=" \o PyStr(r.end)
    ELSE r.period.s

\* render_stock_chart: the same logic, written out again in that handler
chart_yf_params(r) ==
    IF r.start # None \/ r.end # None
    THEN [k \in {"start", "end", "interval"} |-> r[k]]
    ELSE [k \in {"period", "interval"} |-> r[k]]

chart_actual_period(r) ==
    IF r.start # None \/ r.end # None
    THEN "start=" \o PyStr(r.start) \o ", end=" \o PyStr(r.end)
    ELSE r.period.s

pdf_url ==
    "https://www.adobe.com/support/products/enterprise/knowledgecenter/media/c4611_sample_explain.pdf"

\* The backend request a handler issues, if it issues one.
Fetches(h) == h # "get_disclaimer"

RequestOf(h, r) ==
    CASE h = "get_stock_info" -> QuoteRequest(upper(r.symbol))
      [] h = "get_historical_prices" ->
            HistoryRequest(upper(r.symbol), hist_yf_params(r))
      [] h = "render_stock_chart" ->
            HistoryRequest(upper(r.symbol), chart_yf_params(r))
      [] h = "get_factsheet" -> DocumentRequest(pdf_url)

-----------------------------------------------------------------------------
(* Backend answers.                                                         *)

\* A backend answer: `ok` is FALSE when the request itself raised.  A quote
\* answer carries info (key -> value, any key may be missing); a history
\* answer carries a frame (its columns, its rows in backend order); a
\* document answer carries an HTTP status and the body.
QuoteAnswer(info) ==
    [kind |-> "quote", ok |-> TRUE, info |-> info, columns |-> {}, rows |-> <<>>,
     status |-> 0, content |-> ""]
HistoryAnswer(columns, rows) ==
    [kind |-> "history", ok |-> TRUE, info |-> NoParams, columns |-> columns,
     rows |-> rows, status |-> 0, content |-> ""]
DocumentAnswer(status, content) ==
    [kind |-> "document", ok |-> TRUE, info |-> NoParams, columns |-> {},
     rows |-> <<>>, status |-> status, content |-> content]
Raised(kind) ==
    [kind |-> kind, ok |-> FALSE, info |-> NoParams, columns |-> {}, rows |-> <<>>,
     status |-> 0, content |-> ""]
NoAnswer == Raised("none")

\* dict.get(key) and dict.get(key, default)
DictGet(d, k) == IF k \in DOMAIN d THEN d[k] ELSE None
DictGetDefault(d, k, default) == IF k \in DOMAIN d THEN d[k] ELSE default

\* The columns a history frame may carry.
PriceColumns == {"Open", "High", "Low", "Close", "Volume"}
Columns == PriceColumns \cup {"Adj Close"}

\* The cell of a row under a column the frame carries.  A row is
\* [ts |-> [date, time], base |-> Num(b) or NaN]; its cells follow from base so
\* that the columns of one row differ from each other and from row to row.
Cell(row, col) ==
    IF row.base.t = "nan" THEN NaN
    ELSE CASE col = "High" -> Num(row.base.n + 1)
           [] col = "Volume" -> Num(row.base.n * 10)
           [] col = "Adj Close" -> Num(row.base.n + 3)
           [] OTHER -> Num(row.base.n)

\* row.get(col) and row.get(col, default) on a row of the frame
RowGet(frame, row, col) ==
    IF col \in frame.columns THEN Cell(row, col) ELSE None
RowGetDefault(frame, row, col, default) ==
    IF col \in frame.columns THEN Cell(row, col) ELSE default

\* DataFrame.empty: no rows, or no columns
FrameEmpty(frame) == Len(frame.rows) = 0 \/ frame.columns = {}

-----------------------------------------------------------------------------
(* get_stock_info                                                           *)

\* result field -> key read from stock.info
InfoKey ==
    [company_name |-> "longName", current_price |-> "currentPrice",
     market_cap |-> "marketCap", pe_ratio |-> "trailingPE",
     dividend_yield |-> "dividendYield",
     fifty_two_week_high |-> "fiftyTwoWeekHigh",
     fifty_two_week_low |-> "fiftyTwoWeekLow", sector |-> "sector",
     industry |-> "industry", volume |-> "volume", avg_volume |-> "averageVolume",
     beta |-> "beta", book_value |-> "bookValue", eps |-> "trailingEps"]

InfoFields == DOMAIN InfoKey
InfoKeys == {InfoKey[f] : f \in InfoFields}
TextKeys == {"longName", "sector", "industry"}

\* fault variant: missing keys defaulted to 0 and ""
StockInfoZeroDefault(r, info) ==
    [kind |-> "StockInfo", symbol |-> upper(r.symbol),
     fields |-> [f \in InfoFields |->
                    DictGetDefault(info, InfoKey[f],
                        IF InfoKey[f] \in TextKeys THEN Str("") ELSE Num(0))]]
StockInfo(r, info) ==
    [kind |-> "StockInfo", symbol |-> upper(r.symbol),
     fields |-> [f \in InfoFields |-> DictGet(info, InfoKey[f])]]

-----------------------------------------------------------------------------
(* get_historical_prices                                                    *)

\* idx.date() of a pandas Timestamp
date_key(row) == row.ts.date

\* fault variant: the adjusted close never read from the frame
HistoricalBarNoAdjClose(frame, row) ==
    [open |-> RowGet(frame, row, "Open"),
     high |-> RowGet(frame, row, "High"),
     low |-> RowGet(frame, row, "Low"),
     close |-> RowGet(frame, row, "Close"),
     adj_close |-> None,
     volume |-> RowGet(frame, row, "Volume")]
HistoricalBar(frame, row) ==
    [open |-> RowGet(frame, row, "Open"),
     high |-> RowGet(frame, row, "High"),
     low |-> RowGet(frame, row, "Low"),
     close |-> RowGet(frame, row, "Close"),
     adj_close |-> IF "Adj Close" \in frame.columns
                   THEN RowGet(frame, row, "Adj Close") ELSE None,
     volume |-> RowGet(frame, row, "Volume")]

EmptyBars == [d \in {} |-> None]

\* fault variant: bars.setdefault(date_key, bar), the first row of a date kept
PutIfAbsent(bars, k, v) ==
    [d \in DOMAIN bars \cup {k} |-> IF d \in DOMAIN bars THEN bars[d] ELSE v]
\* bars[date_key] = bar: a later row of the same date replaces the earlier
Put(bars, k, v) == [d \in DOMAIN bars \cup {k} |-> IF d = k THEN v ELSE bars[d]]

RECURSIVE hist_iterrows(_, _, _)
hist_iterrows(frame, i, bars) ==
    IF i > Len(frame.rows) THEN bars
    ELSE hist_iterrows(frame, i + 1,
            Put(bars, date_key(frame.rows[i]), HistoricalBar(frame, frame.rows[i])))

\* fault variant: a placeholder bar for an empty frame, as the chart does
PlaceholderBar ==
    [open |-> None, high |-> None, low |-> None, close |-> None,
     adj_close |-> None, volume |-> None]
hist_bars_placeholder(frame) ==
    IF ~FrameEmpty(frame) THEN hist_iterrows(frame, 1, EmptyBars)
    ELSE Put(EmptyBars, "2024-01-01", PlaceholderBar)
hist_bars(frame) ==
    IF ~FrameEmpty(frame) THEN hist_iterrows(frame, 1, EmptyBars) ELSE EmptyBars

HistoricalPrices(r, frame) ==
    [kind |-> "HistoricalPrices", symbol |-> upper(r.symbol),
     resolution |-> r.period.s, period |-> hist_actual_period(r),
     bars |-> hist_bars(frame)]

-----------------------------------------------------------------------------
(* Number formatting of the chart page.  A number is held exactly, as the   *)
(* fraction num/den with den > 0, or is NaN.                                *)

Frac(num, den) == [t |-> "num", num |-> num, den |-> den]
FracNaN == [t |-> "nan", num |-> 0, den |-> 1]
ToFrac(v) == IF v.t = "nan" THEN FracNaN ELSE Frac(v.n, 1)

Abs(n) == IF n < 0 THEN -n ELSE n

Digit == <<"0", "1", "2", "3", "4", "5", "6", "7", "8", "9">>

RECURSIVE IntToStr(_)
IntToStr(n) ==
    IF n < 10 THEN Digit[n + 1]
    ELSE IntToStr(n \div 10) \o Digit[(n % 10) + 1]

RECURSIVE Pow10(_)
Pow10(k) == IF k = 0 THEN 1 ELSE 10 * Pow10(k - 1)

RECURSIVE ZeroPad(_, _)
ZeroPad(str, width) == IF Len(str) >= width THEN str ELSE ZeroPad("0" \o str, width)

\* n/d rounded to the nearest integer, ties to even (n >= 0, d > 0)
RoundHalfEven(n, d) ==
    LET q == n \div d
        twice == 2 * (n % d)
    IN  IF twice < d THEN q
        ELSE IF twice > d THEN q + 1
        ELSE IF q % 2 = 0 THEN q ELSE q + 1

\* format(x, ".<decimals>f") and, with plus, format(x, "+.<decimals>f")
FormatFixed(x, decimals, plus) ==
    IF x.t = "nan" THEN (IF plus THEN "+nan" ELSE "nan")
    ELSE LET scaled == RoundHalfEven(Abs(x.num) * Pow10(decimals), x.den)
             sign == IF x.num < 0 THEN "-" ELSE IF plus THEN "+" ELSE ""
         IN  sign \o IntToStr(scaled \div Pow10(decimals)) \o "."
                  \o ZeroPad(IntToStr(scaled % Pow10(decimals)), decimals)

-----------------------------------------------------------------------------
(* render_stock_chart                                                       *)

\* idx.strftime('%Y-%m-%d') of a pandas Timestamp
date_str(row) == row.ts.date

\* float(x) keeps a number and keeps NaN; int(x) raises ValueError on NaN
IntRaises(v) == v.t = "nan"

chart_point(frame, row) ==
    [date |-> date_str(row),
     open |-> RowGetDefault(frame, row, "Open", Num(0)),
     high |-> RowGetDefault(frame, row, "High", Num(0)),
     low |-> RowGetDefault(frame, row, "Low", Num(0)),
     close |-> RowGetDefault(frame, row, "Close", Num(0)),
     volume |-> RowGetDefault(frame, row, "Volume", Num(0))]

\* the loop over hist.iterrows() raises when int() meets a NaN volume
chart_rows_raise(frame) ==
    /\ ~FrameEmpty(frame)
    /\ \E i \in 1..Len(frame.rows) :
          IntRaises(RowGetDefault(frame, frame.rows[i], "Volume", Num(0)))

chart_rows(frame) ==
    IF ~FrameEmpty(frame)
    THEN [i \in 1..Len(frame.rows) |-> chart_point(frame, frame.rows[i])]
    ELSE <<>>

dummy_point ==
    [date |-> "2024-01-01", open |-> Num(100), high |-> Num(100),
     low |-> Num(100), close |-> Num(100), volume |-> Num(0)]

chart_data(frame) ==
    IF chart_rows(frame) = <<>> THEN <<dummy_point>> ELSE chart_rows(frame)

latest_price(data) == ToFrac(data[Len(data)].close)
first_price(data) == ToFrac(data[1].close)

price_change(data) ==
    IF latest_price(data).t = "nan" \/ first_price(data).t = "nan" THEN FracNaN
    ELSE Frac(latest_price(data).num - first_price(data).num, 1)

\* ((latest - first) / first * 100) if first != 0 else 0; NaN != 0 is true
price_change_pct(data) ==
    IF first_price(data).t = "nan" \/ latest_price(data).t = "nan" THEN FracNaN
    ELSE IF first_price(data).num # 0
    THEN LET n == (latest_price(data).num - first_price(data).num) * 100
             d == first_price(data).num
         IN  IF d < 0 THEN Frac(-n, -d) ELSE Frac(n, d)
    ELSE Frac(0, 1)

\* fault variant: the amount formatted without its sign
change_text_unsigned(data) ==
    "$" \o FormatFixed(price_change(data), 2, FALSE)
        \o " (" \o FormatFixed(price_change_pct(data), 1, TRUE) \o "%)"
change_text(data) ==
    "$" \o FormatFixed(price_change(data), 2, TRUE)
        \o " (" \o FormatFixed(price_change_pct(data), 1, TRUE) \o "%)"

\* fault variant: chart_type compared as given, without .lower()
chart_script_case_sensitive(chart_type) ==
    IF chart_type = <<"l","i","n","e">> THEN "line"
    ELSE IF chart_type = <<"c","a","n","d","l","e","s","t","i","c","k">>
    THEN "candlestick"
    ELSE "area"
\* the branch of chart_type.lower() that picks the D3 script
chart_script(chart_type) ==
    IF lower(chart_type) = <<"l","i","n","e">> THEN "line"
    ELSE IF lower(chart_type) = <<"c","a","n","d","l","e","s","t","i","c","k">>
    THEN "candlestick"
    ELSE "area"

RECURSIVE Join(_)
Join(chars) == IF chars = <<>> THEN "" ELSE Head(chars) \o Join(Tail(chars))

\* the values substituted into the page template
Html(r, data) ==
    [title |-> Join(upper(r.symbol)) \o " Chart",
     period |-> chart_actual_period(r),
     current_price |-> "$" \o FormatFixed(latest_price(data), 2, FALSE),
     change_class |-> IF price_change(data).t = "num" /\ price_change(data).num >= 0
                      THEN "positive" ELSE "negative",
     change |-> change_text(data),
     data_points |-> Len(data),
     rawData |-> data,
     chart_script |-> chart_script(r.chart_type)]

\* base64.b64encode(payload): kept as the payload marked encoded
b64encode(payload) == [encoding |-> "base64", payload |-> payload]

ChartResource(r, frame) ==
    [kind |-> "EmbeddedResource",
     uri |-> "ui://data/chart/" \o Join(r.symbol),
     mimeType |-> "text/html",
     blob |-> b64encode(Html(r, chart_data(frame)))]

-----------------------------------------------------------------------------
(* get_factsheet and get_disclaimer                                         *)

\* fault variant: only server errors raise, a 404 page is taken as the document
is_success_below_500(status) == status >= 200 /\ status <= 499
\* response.raise_for_status() raises unless the status is 2xx
is_success(status) == status >= 200 /\ status <= 299

\* fault variant: the document returned without its media type and under
\* the chart's prefix
FactsheetResourceUntyped(r, content) ==
    [kind |-> "EmbeddedResource",
     uri |-> "ui://data/chart/" \o Join(r.symbol),
     mimeType |-> "application/octet-stream",
     blob |-> b64encode(content)]
FactsheetResource(r, content) ==
    [kind |-> "EmbeddedResource",
     uri |-> "ui://data/factsheets/" \o Join(r.symbol) \o ".pdf",
     mimeType |-> "application/pdf",
     blob |-> b64encode(content)]

DisclaimerResource ==
    [kind |-> "EmbeddedResource",
     uri |-> "ui://data/disclaimer.md",
     mimeType |-> "text/markdown",
     text |-> "# Stock Data Disclaimer ..."]

NoResult == [kind |-> "none"]

-----------------------------------------------------------------------------
(* The discovery endpoint of the bridge.                                    *)

\* characters str.strip() removes
IsSpace(c) == c \in {" ", "\t", "\n", "\r", "\f"}

RECURSIVE lstrip(_)
lstrip(chars) ==
    IF chars # <<>> /\ IsSpace(Head(chars)) THEN lstrip(Tail(chars)) ELSE chars

RECURSIVE rstrip(_)
rstrip(chars) ==
    IF chars # <<>> /\ IsSpace(chars[Len(chars)])
    THEN rstrip(SubSeq(chars, 1, Len(chars) - 1)) ELSE chars

\* fault variant: only leading whitespace removed
strip_left_only(chars) == lstrip(chars)
strip(chars) == rstrip(lstrip(chars))

\* the file: whether it exists, whether open() succeeds, and its text
NoFile == [exists |-> FALSE, readable |-> FALSE, text |-> <<>>]
FileOf(text, readable) == [exists |-> TRUE, readable |-> readable, text |-> text]

JSONResponse(data) == [status |-> 200, body |-> data]
\* no request made yet, and a request received but not yet answered
NoResponse == [status |-> 0, body |-> [k \in {} |-> <<>>]]
Pending == [status |-> -1, body |-> [k \in {} |-> <<>>]]

wingman == <<"w","i","n","g","m","a","n">>

\* wingman_endpoint: the body built for one request, from the file as it is
\* when the request is handled
wingman_endpoint(f) ==
    LET data == [k \in {"name"} |-> wingman]
        instructions == strip(f.text)
    IN  IF f.exists
        THEN IF f.readable
             THEN IF instructions # <<>>
                  THEN JSONResponse([k \in {"name", "instructions"} |->
                                        IF k = "name" THEN wingman ELSE instructions])
                  ELSE JSONResponse(data)
             ELSE JSONResponse(data)
        ELSE JSONResponse(data)

-----------------------------------------------------------------------------
(* Inputs: what callers, the backend and the file system may supply.        *)

SymAlphabet == {"A", "a", "1"}

RECURSIVE SeqsUpTo(_, _)
SeqsUpTo(S, n) ==
    IF n = 0 THEN {<<>>}
    ELSE LET shorter == SeqsUpTo(S, n - 1)
         IN  shorter \cup {Append(q, x) : q \in shorter, x \in S}

AAPL == <<"A", "A", "P", "L">>

WideSymbols ==
    {NotGiven} \cup
    {Given(q) : q \in SeqsUpTo(SymAlphabet, MaxSymLen)
                       \cup {AAPL, <<"a", "a", "p", "l">>, <<"A", ".", "B">>,
                             [i \in 1..MaxLength |-> "Z"],
                             [i \in 1..(MaxLength + 1) |-> "Z"]}}
FewSymbols == {NotGiven, Given(AAPL), Given(<<"a", "a", "p", "l">>)}
OneSymbol == {Given(AAPL)}

ToolNames == Handlers \cup {"disclaimer", "get_news"}

Opts(ct, p, i, st, e) ==
    [chart_type |-> ct, period |-> p, interval |-> i, start |-> st, end |-> e]

DefaultOpts == {Opts(NotGiven, Absent, Absent, Absent, Absent)}
FewOpts ==
    DefaultOpts \cup {Opts(Given(<<"L", "i", "n", "e">>), Str("5d"), Str("1h"),
                           Str("2024-01-01"), Absent)}
WideOpts ==
    {Opts(ct, p, i, st, e) :
        ct \in {NotGiven, Given(<<"a", "r", "e", "a">>)},
        p \in {Absent, None, Str("5d")},
        i \in {Absent, Str("1h")},
        st \in {Absent, None, Str("2024-01-01")},
        e \in {Absent, None, Str("2024-02-01")}}

\* chart_type as callers may write it: left out, each kind in several
\* spellings, the empty string, and values that name no kind
ChartTypes ==
    {NotGiven,
     Given(<<"l","i","n","e">>), Given(<<"L","I","N","E">>),
     Given(<<"L","i","n","e">>),
     Given(<<"c","a","n","d","l","e","s","t","i","c","k">>),
     Given(<<"C","a","n","d","l","e","S","t","i","c","k">>),
     Given(<<"a","r","e","a">>), Given(<<"A","R","E","A">>),
     Given(<<"p","i","e">>), Given(<<>>), Given(<<"l","i","n","e","s">>),
     Given(<<" ","l","i","n","e">>)}
ChartOpts == {Opts(ct, Absent, Absent, Absent, Absent) : ct \in ChartTypes}

\* The arguments of a call: a caller supplies only parameters the tool declares.
ParamsOfName(name) == IF name \in Handlers THEN Params(name) ELSE {"symbol"}

CallArgs(name, sym, o) ==
    LET P == ParamsOfName(name)
    IN  [symbol |-> IF "symbol" \in P THEN sym ELSE NotGiven,
         chart_type |-> IF "chart_type" \in P THEN o.chart_type ELSE NotGiven,
         period |-> IF "period" \in P THEN o.period ELSE Absent,
         interval |-> IF "interval" \in P THEN o.interval ELSE Absent,
         start |-> IF "start" \in P THEN o.start ELSE Absent,
         end |-> IF "end" \in P THEN o.end ELSE Absent]

NoArgs == CallArgs("", NotGiven, Opts(NotGiven, Absent, Absent, Absent, Absent))
NoReq == Normalized("", NoArgs)

\* Quote answers: any set of keys may be missing; of the keys present some
\* carry zero-like values (0, ""), the others ordinary ones.
ZeroKeys == {"dividendYield", "volume", "sector"}

InfoValue(k) ==
    IF k \in TextKeys THEN (IF k \in ZeroKeys THEN Str("") ELSE Str("Apple Inc."))
    ELSE (IF k \in ZeroKeys THEN Num(0) ELSE Num(150))

FullInfo == [k \in InfoKeys |-> InfoValue(k)]

WideQuoteAnswers ==
    {Raised("quote")} \cup
    {QuoteAnswer([k \in present |-> InfoValue(k)]) : present \in SUBSET InfoKeys}
FewQuoteAnswers ==
    {Raised("quote"), QuoteAnswer(FullInfo), QuoteAnswer([k \in {} |-> None])}

\* History answers: rows in time order, several of them possibly on one date.
Timestamps ==
    <<[date |-> "2024-01-02", time |-> "09:30"],
      [date |-> "2024-01-02", time |-> "10:30"],
      [date |-> "2024-01-03", time |-> "09:30"]>>
Bases == {Num(0), Num(100), Num(150), NaN}

RECURSIVE RowSeqs(_, _)
RowSeqs(n, from) ==
    IF n = 0 THEN {<<>>}
    ELSE {<<>>} \cup
         UNION {{<<[ts |-> Timestamps[t], base |-> b]>> \o rest :
                    b \in Bases, rest \in RowSeqs(n - 1, t)} :
                t \in from..Len(Timestamps)}

OneRow == <<[ts |-> Timestamps[1], base |-> Num(100)]>>

WideHistoryAnswers ==
    {Raised("history")} \cup
    {HistoryAnswer(cols, rows) : cols \in SUBSET Columns, rows \in RowSeqs(MaxRows, 1)}
FewHistoryAnswers ==
    {Raised("history"), HistoryAnswer(PriceColumns, <<>>),
     HistoryAnswer(PriceColumns, OneRow)}

DocumentAnswers ==
    {Raised("document"), DocumentAnswer(200, "%PDF-1.4"), DocumentAnswer(404, ""),
     DocumentAnswer(500, "error")}

FewAnswers == FewQuoteAnswers \cup FewHistoryAnswers \cup DocumentAnswers
WideAnswers == WideQuoteAnswers \cup WideHistoryAnswers \cup DocumentAnswers

FileAlphabet == {" ", "\n", "a"}
WideTexts == SeqsUpTo(FileAlphabet, MaxFileLen)
FewTexts == {<<>>, <<" ", "a">>}

-----------------------------------------------------------------------------
(* Initial state: the process has created its FastMCP instance and has run  *)
(* none of the register_* statements; no call is in progress; there is no   *)
(* instructions file yet and no request has reached the bridge.             *)

IdleCall ==
    /\ phase = "idle"
    /\ tool = ""
    /\ args = NoArgs
    /\ req = NoReq
    /\ backendLog = <<>>
    /\ answer = NoAnswer
    /\ outcome = "none"
    /\ result = NoResult

\* the calls in flight, and the locals of a call not yet dispatched
CallIds == 1..MaxCalls

IdleLocals ==
    [phase |-> "idle", tool |-> "", args |-> NoArgs, req |-> NoReq,
     backendLog |-> <<>>, answer |-> NoAnswer, outcome |-> "none",
     result |-> NoResult]

Init ==
    /\ server \in Servers
    /\ pc = "import"
    /\ regIdx = 0
    /\ registry = EmptyRegistry
    /\ IdleCall
    /\ file = NoFile
    /\ response = NoResponse
    /\ calls = [c \in CallIds |-> IdleLocals]

-----------------------------------------------------------------------------
(* Startup actions.                                                         *)

\* the next register_* statement of the main module
RegisterTool ==
    /\ pc = "import"
    /\ regIdx < Len(Startup(server))
    /\ LET r == register(registry, Startup(server)[regIdx + 1])
       IN  IF r.ok
           THEN /\ registry' = r.reg
                /\ regIdx' = regIdx + 1
                /\ pc' = pc
           ELSE /\ pc' = "failed"
                /\ UNCHANGED <<registry, regIdx>>
    /\ UNCHANGED <<server, callVars, bridgeVars>>

\* mcp.run(transport="streamable-http")
Run ==
    /\ pc = "import"
    /\ StartupComplete
    /\ pc' = "serving"
    /\ UNCHANGED <<server, regIdx, registry, callVars, bridgeVars>>

-----------------------------------------------------------------------------
(* Serving one call.                                                        *)

\* the handler the call resolved to (from "resolved" on)
Handler == registry[tool]

ReceiveCall(Names, Syms, OptSet) ==
    /\ pc = "serving"
    /\ phase = "idle"
    /\ \E name \in Names, sym \in Syms, o \in OptSet :
          /\ tool' = name
          /\ args' = CallArgs(name, sym, o)
    /\ phase' = "received"
    /\ UNCHANGED <<req, backendLog, answer, outcome, result, bootVars, bridgeVars, calls>>

Resolve ==
    /\ phase = "received"
    /\ IF resolve(registry, tool).ok
       THEN /\ phase' = "resolved"
            /\ outcome' = outcome
       ELSE /\ phase' = "done"
            /\ outcome' = "UnknownToolError"
    /\ UNCHANGED <<tool, args, req, backendLog, answer, result, bootVars, bridgeVars, calls>>

Validate ==
    /\ phase = "resolved"
    /\ LET v == validate(Handler, args)
       IN  IF v.ok
           THEN /\ phase' = "validated"
                /\ req' = v.req
                /\ outcome' = outcome
           ELSE /\ phase' = "done"
                /\ req' = req
                /\ outcome' = "ValidationError"
    /\ UNCHANGED <<tool, args, backendLog, answer, result, bootVars, bridgeVars, calls>>

\* the handler body up to its backend request; get_disclaimer has none and
\* returns at once
StartHandler ==
    /\ phase = "validated"
    /\ IF Fetches(Handler)
       THEN /\ backendLog' = Append(backendLog, RequestOf(Handler, req))
            /\ phase' = "awaiting"
            /\ UNCHANGED <<outcome, result>>
       ELSE /\ result' = DisclaimerResource
            /\ outcome' = "ok"
            /\ phase' = "done"
            /\ UNCHANGED backendLog
    /\ UNCHANGED <<tool, args, req, answer, bootVars, bridgeVars, calls>>

\* the rest of the handler body, given the backend's answer
Finish(h, r, ans) ==
    IF ~ans.ok THEN [outcome |-> "UpstreamFetchError", result |-> NoResult]
    ELSE CASE h = "get_stock_info" ->
                [outcome |-> "ok", result |-> StockInfo(r, ans.info)]
           [] h = "get_historical_prices" ->
                [outcome |-> "ok", result |-> HistoricalPrices(r, ans)]
           [] h = "render_stock_chart" ->
                IF chart_rows_raise(ans)
                THEN [outcome |-> "ValueError", result |-> NoResult]
                ELSE [outcome |-> "ok", result |-> ChartResource(r, ans)]
           [] h = "get_factsheet" ->
                IF ~is_success(ans.status)
                THEN [outcome |-> "HTTPStatusError", result |-> NoResult]
                ELSE [outcome |-> "ok", result |-> FactsheetResource(r, ans.content)]

BackendAnswers(Answers) ==
    /\ phase = "awaiting"
    /\ \E ans \in Answers :
          /\ ans.kind = backendLog[Len(backendLog)].kind
          /\ answer' = ans
          /\ outcome' = Finish(Handler, req, ans).outcome
          /\ result' = Finish(Handler, req, ans).result
    /\ phase' = "done"
    /\ UNCHANGED <<tool, args, req, backendLog, bootVars, bridgeVars, calls>>

\* the response is handed to the transport; nothing of the call is kept
Return ==
    /\ phase = "done"
    /\ phase' = "idle"
    /\ tool' = ""
    /\ args' = NoArgs
    /\ req' = NoReq
    /\ backendLog' = <<>>
    /\ answer' = NoAnswer
    /\ outcome' = "none"
    /\ result' = NoResult
    /\ UNCHANGED <<bootVars, bridgeVars, calls>>

-----------------------------------------------------------------------------
(* Calls that overlap.  The transport dispatches calls without waiting for  *)
(* the ones before; each runs the same steps as above, on its own locals.   *)

\* fault variant: yf_params and actual_period kept in module-level names,
\* so what one call assigns is what every call in flight reads
bind_module_level(cs, c, k) ==
    [d \in DOMAIN cs |-> IF d = c THEN k ELSE [cs[d] EXCEPT !.req = k.req]]
\* parameters and the names a handler assigns (yf_params, actual_period,
\* stock, hist, bars, chart_data, ...) are bound in the frame of that call
bind(cs, c, k) == [cs EXCEPT ![c] = k]

DispatchCall(c, Names, Syms, OptSet) ==
    /\ pc = "serving"
    /\ calls[c].phase = "idle"
    /\ \E name \in Names, sym \in Syms, o \in OptSet :
          calls' = bind(calls, c,
                      [calls[c] EXCEPT !.phase = "received", !.tool = name,
                                       !.args = CallArgs(name, sym, o)])
    /\ UNCHANGED <<phase, tool, args, req, backendLog, answer, outcome, result,
                   bootVars, bridgeVars>>

ResolveCall(c) ==
    /\ calls[c].phase = "received"
    /\ calls' = bind(calls, c,
                   IF resolve(registry, calls[c].tool).ok
                   THEN [calls[c] EXCEPT !.phase = "resolved"]
                   ELSE [calls[c] EXCEPT !.phase = "done",
                                         !.outcome = "UnknownToolError"])
    /\ UNCHANGED <<phase, tool, args, req, backendLog, answer, outcome, result,
                   bootVars, bridgeVars>>

ValidateCall(c) ==
    /\ calls[c].phase = "resolved"
    /\ LET v == validate(registry[calls[c].tool], calls[c].args)
       IN  calls' = bind(calls, c,
                       IF v.ok
                       THEN [calls[c] EXCEPT !.phase = "validated", !.req = v.req]
                       ELSE [calls[c] EXCEPT !.phase = "done",
                                             !.outcome = "ValidationError"])
    /\ UNCHANGED <<phase, tool, args, req, backendLog, answer, outcome, result,
                   bootVars, bridgeVars>>

StartCall(c) ==
    /\ calls[c].phase = "validated"
    /\ LET h == registry[calls[c].tool]
       IN  calls' = bind(calls, c,
                       IF Fetches(h)
                       THEN [calls[c] EXCEPT
                               !.phase = "awaiting",
                               !.backendLog = Append(@, RequestOf(h, calls[c].req))]
                       ELSE [calls[c] EXCEPT !.phase = "done", !.outcome = "ok",
                                             !.result = DisclaimerResource])
    /\ UNCHANGED <<phase, tool, args, req, backendLog, answer, outcome, result,
                   bootVars, bridgeVars>>

AnswerCall(c, Answers) ==
    /\ calls[c].phase = "awaiting"
    /\ \E ans \in Answers :
          /\ ans.kind = calls[c].backendLog[Len(calls[c].backendLog)].kind
          /\ LET f == Finish(registry[calls[c].tool], calls[c].req, ans)
             IN  calls' = bind(calls, c,
                             [calls[c] EXCEPT !.phase = "done", !.answer = ans,
                                              !.outcome = f.outcome,
                                              !.result = f.result])
    /\ UNCHANGED <<phase, tool, args, req, backendLog, answer, outcome, result,
                   bootVars, bridgeVars>>

\* the response is handed to the transport and the frame of the call is gone
ReturnCall(c) ==
    /\ calls[c].phase = "done"
    /\ calls' = bind(calls, c, IdleLocals)
    /\ UNCHANGED <<phase, tool, args, req, backendLog, answer, outcome, result,
                   bootVars, bridgeVars>>

-----------------------------------------------------------------------------
(* The instructions file and the discovery endpoint.                        *)

\* the file is created or edited
WriteFile(Texts) ==
    /\ \E text \in Texts : file' = FileOf(text, IF file.exists THEN file.readable ELSE TRUE)
    /\ UNCHANGED <<response, bootVars, callVars>>

DeleteFile ==
    /\ file.exists
    /\ file' = NoFile
    /\ UNCHANGED <<response, bootVars, callVars>>

\* reads of the file start or stop failing (permissions, encoding)
SetReadable ==
    /\ file.exists
    /\ file' = [file EXCEPT !.readable = ~file.readable]
    /\ UNCHANGED <<response, bootVars, callVars>>

\* a GET /.well-known/wingman request arrives
GetRequest ==
    /\ response # Pending
    /\ response' = Pending
    /\ UNCHANGED <<file, bootVars, callVars>>

\* the route handler runs and answers the request
GetWingman ==
    /\ response = Pending
    /\ response' = wingman_endpoint(file)
    /\ UNCHANGED <<file, bootVars, callVars>>

-----------------------------------------------------------------------------
(* Specifications.                                                          *)

Serve(Names, Syms, OptSet, Answers) ==
    \/ RegisterTool
    \/ Run
    \/ ReceiveCall(Names, Syms, OptSet)
    \/ Resolve
    \/ Validate
    \/ StartHandler
    \/ BackendAnswers(Answers)
    \/ Return

Bridge(Texts) ==
    \/ WriteFile(Texts)
    \/ DeleteFile
    \/ SetReadable
    \/ GetRequest
    \/ GetWingman

\* everything, with few inputs of each kind
Next ==
    \/ Serve(ToolNames, FewSymbols, FewOpts, FewAnswers)
    \/ Bridge(FewTexts)
Spec == Init /\ [][Next]_vars

\* calls with every symbol of the bounded set
NextSymbols == Serve(ToolNames, WideSymbols, DefaultOpts, FewAnswers)
SpecSymbols == Init /\ [][NextSymbols]_vars

\* history and chart calls with every combination of the optional parameters
NextParams ==
    Serve({"get_historical_prices", "render_stock_chart"}, OneSymbol, WideOpts,
          FewAnswers)
SpecParams == Init /\ [][NextParams]_vars

\* fetching calls of the stock-mcp server (it registers every tool) against
\* every backend answer of the bounded set
InitStockMcp == Init /\ server = "stock-mcp"
NextData == Serve(Handlers, OneSymbol, DefaultOpts, WideAnswers)
SpecData == InitStockMcp /\ [][NextData]_vars

\* the bridge alone, with every text of the bounded set
NextBridge == Bridge(WideTexts)
SpecBridge == Init /\ [][NextBridge]_vars

\* calls of the stock-mcp server dispatched at once, in any interleaving
OverlapNames ==
    {"get_historical_prices", "render_stock_chart", "get_factsheet",
     "get_disclaimer", "get_news"}
OverlapSymbols == {Given(AAPL), Given(<<"a", "a", "p", "l">>)}

NextOverlap ==
    \/ RegisterTool
    \/ Run
    \/ \E c \in CallIds : DispatchCall(c, OverlapNames, OverlapSymbols, DefaultOpts)
    \/ \E c \in CallIds : ResolveCall(c)
    \/ \E c \in CallIds : ValidateCall(c)
    \/ \E c \in CallIds : StartCall(c)
    \/ \E c \in CallIds : AnswerCall(c, FewAnswers)
    \/ \E c \in CallIds : ReturnCall(c)
SpecOverlap == InitStockMcp /\ [][NextOverlap]_vars

\* chart calls with every chart_type of the bounded set
NextChart == Serve({"render_stock_chart"}, OneSymbol, ChartOpts, FewAnswers)
SpecChart == Init /\ [][NextChart]_vars

-----------------------------------------------------------------------------
(* Properties.                                                              *)

\* the call in progress resolved to a handler that takes a symbol
SymbolCall ==
    /\ phase # "idle"
    /\ tool \in {"get_stock_info", "get_historical_prices", "render_stock_chart",
                 "get_factsheet"}
    /\ tool \in DOMAIN registry

Letters == {"A","B","C","D","E","F","G","H","I","J","K","L","M",
            "N","O","P","Q","R","S","T","U","V","W","X","Y","Z"}
Smalls == {"a","b","c","d","e","f","g","h","i","j","k","l","m",
           "n","o","p","q","r","s","t","u","v","w","x","y","z"}

\* 1 to 10 uppercase letters A-Z
IsTicker(chars) == Len(chars) \in 1..10 /\ \A i \in 1..Len(chars) : chars[i] \in Letters

\* letters only, at least one of them lowercase, 1 to 10 of them
IsLowercaseTicker(chars) ==
    /\ Len(chars) \in 1..10
    /\ \A i \in 1..Len(chars) : chars[i] \in Letters \cup Smalls
    /\ \E i \in 1..Len(chars) : chars[i] \in Smalls

\* C1: a call to a symbol-taking tool whose symbol contains a lowercase
\* letter is accepted by validation, and the backend is queried with the
\* uppercase symbol: such a call never ends in a validation error, and every
\* quote or history request it issues carries the uppercased symbol.
C1_LowercaseSymbolNormalized ==
    (SymbolCall /\ args.symbol.given /\ IsLowercaseTicker(args.symbol.chars))
    => /\ outcome # "ValidationError"
       /\ \A i \in 1..Len(backendLog) :
             backendLog[i].kind \in {"quote", "history"}
             => backendLog[i].ticker = upper(args.symbol.chars)

Supplied(v) == IF v.t = "str" THEN v ELSE None

\* C3: in get_historical_prices and render_stock_chart the history request
\* carries start, end and interval and no period when start or end is
\* supplied, and period and interval and no start or end when neither is; the
\* interval is the supplied one (1d when none is supplied), the period the
\* supplied one (1y, for the chart 1mo, when none is supplied).
C3_DateRangeOverridesPeriod ==
    (/\ phase \in {"awaiting", "done"}
     /\ tool \in {"get_historical_prices", "render_stock_chart"}
     /\ backendLog # <<>>)
    => LET p == backendLog[1].params
           interval == IF args.interval.t = "str" THEN args.interval ELSE Str("1d")
           period == IF args.period.t = "str" THEN args.period
                     ELSE IF tool = "render_stock_chart" THEN Str("1mo")
                     ELSE Str("1y")
       IN  /\ Len(backendLog) = 1
           /\ backendLog[1].kind = "history"
           /\ IF args.start.t = "str" \/ args.end.t = "str"
              THEN /\ DOMAIN p = {"start", "end", "interval"}
                   /\ p["start"] = Supplied(args.start)
                   /\ p["end"] = Supplied(args.end)
                   /\ p["interval"] = interval
              ELSE /\ DOMAIN p = {"period", "interval"}
                   /\ p["period"] = period
                   /\ p["interval"] = interval

C3_Witness ==
    /\ phase = "awaiting"
    /\ tool = "get_historical_prices"
    /\ args.period = Str("5d")
    /\ args.interval = Str("1h")
    /\ args.start = Absent
    /\ args.end = Str("2024-02-01")
    /\ backendLog # <<>>
    /\ "period" \notin DOMAIN backendLog[1].params

\* C4: when the backend returns zero history rows, get_historical_prices
\* ends without error and returns a HistoricalPrices whose bars mapping is
\* empty.
C4_ZeroRowsGiveEmptyBars ==
    (/\ phase = "done"
     /\ tool = "get_historical_prices"
     /\ answer.ok
     /\ answer.kind = "history"
     /\ Len(answer.rows) = 0)
    => /\ outcome = "ok"
       /\ result.kind = "HistoricalPrices"
       /\ DOMAIN result.bars = {}

C4_Witness ==
    /\ phase = "done"
    /\ tool = "get_historical_prices"
    /\ answer.ok
    /\ answer.kind = "history"
    /\ Len(answer.rows) = 0
    /\ answer.columns = {"Open", "High", "Low", "Close", "Volume"}
    /\ outcome = "ok"
    /\ DOMAIN result.bars = {}

\* a finished render_stock_chart call whose history request was answered
ChartAnswered ==
    /\ phase = "done"
    /\ tool = "render_stock_chart"
    /\ answer.ok
    /\ answer.kind = "history"

SyntheticPoint ==
    [date |-> "2024-01-01", open |-> Num(100), high |-> Num(100),
     low |-> Num(100), close |-> Num(100), volume |-> Num(0)]

\* the page of a chart call that returned a resource
Page == result.blob.payload

BarColumn ==
    [open |-> "Open", high |-> "High", low |-> "Low", close |-> "Close",
     adj_close |-> "Adj Close", volume |-> "Volume"]

\* the last row of the answer that falls on date d
LastRowOn(d) ==
    answer.rows[CHOOSE i \in 1..Len(answer.rows) :
                   /\ answer.rows[i].ts.date = d
                   /\ \A j \in (i + 1)..Len(answer.rows) : answer.rows[j].ts.date # d]

\* C6: in get_stock_info every field whose key the backend omits is None in
\* the result and every field whose key it returns has the returned value; in
\* get_historical_prices every bar of the result has None in each field whose
\* column the frame omits and the frame's value in each field whose column it
\* carries, and every row of a frame that is not empty has its bar.
C6_MissingFieldsAreNone ==
    /\ (phase = "done" /\ tool = "get_stock_info" /\ answer.ok)
       => /\ outcome = "ok"
          /\ result.kind = "StockInfo"
          /\ DOMAIN result.fields =
                {"company_name", "current_price", "market_cap", "pe_ratio",
                 "dividend_yield", "fifty_two_week_high", "fifty_two_week_low",
                 "sector", "industry", "volume", "avg_volume", "beta",
                 "book_value", "eps"}
          /\ \A f \in DOMAIN result.fields :
                IF InfoKey[f] \in DOMAIN answer.info
                THEN result.fields[f] = answer.info[InfoKey[f]]
                ELSE result.fields[f] = None
    /\ (phase = "done" /\ tool = "get_historical_prices" /\ answer.ok)
       => /\ outcome = "ok"
          /\ (Len(answer.rows) > 0 /\ answer.columns # {})
             => DOMAIN result.bars =
                   {answer.rows[i].ts.date : i \in 1..Len(answer.rows)}
          /\ \A d \in DOMAIN result.bars :
                \A f \in DOMAIN BarColumn :
                   IF BarColumn[f] \in answer.columns
                   THEN result.bars[d][f] = Cell(LastRowOn(d), BarColumn[f])
                   ELSE result.bars[d][f] = None

C6_WitnessInfo ==
    /\ phase = "done"
    /\ tool = "get_stock_info"
    /\ answer.ok
    /\ DOMAIN answer.info = {"volume", "sector", "currentPrice"}
    /\ result.fields["volume"] = Num(0)
    /\ result.fields["sector"] = Str("")
    /\ result.fields["beta"] = None
    /\ result.fields["company_name"] = None

\* C7: in render_stock_chart a price or volume field whose column the
\* history rows do not carry never shows up as a number in the embedded
\* dataset.
C7_NoFabricatedChartValue ==
    (ChartAnswered /\ outcome = "ok" /\ Len(answer.rows) > 0 /\ answer.columns # {})
    => \A i \in 1..Len(Page.rawData) :
          \A f \in {"open", "high", "low", "close", "volume"} :
             BarColumn[f] \notin answer.columns => Page.rawData[i][f].t # "num"

Whitespace == {" ", "\t", "\n", "\r", "\f"}

\* the file exists, can be read, and holds something besides whitespace
HasInstructions(f) ==
    /\ f.exists
    /\ f.readable
    /\ \E i \in 1..Len(f.text) : f.text[i] \notin Whitespace

\* v is text without its leading and trailing whitespace
IsTrimOf(v, text) ==
    /\ v # <<>>
    /\ v[1] \notin Whitespace
    /\ v[Len(v)] \notin Whitespace
    /\ \E a \in 0..Len(text) :
          /\ a + Len(v) <= Len(text)
          /\ SubSeq(text, a + 1, a + Len(v)) = v
          /\ \A i \in 1..a : text[i] \in Whitespace
          /\ \A i \in (a + Len(v) + 1)..Len(text) : text[i] \in Whitespace

\* C8: whatever happened to the instructions file before, the answer to a
\* GET /.well-known/wingman is a 200 JSON document with name "wingman", and
\* it has an instructions field exactly when the file, as it is when the
\* request is handled, exists, is readable and is not blank; the field then
\* holds the file's text trimmed.
C8_WingmanReflectsFileAtRequest ==
    [][(response = Pending /\ response' # Pending)
       => /\ response'.status = 200
          /\ DOMAIN response'.body \subseteq {"name", "instructions"}
          /\ "name" \in DOMAIN response'.body
          /\ response'.body["name"] = <<"w", "i", "n", "g", "m", "a", "n">>
          /\ "instructions" \in DOMAIN response'.body <=> HasInstructions(file)
          /\ HasInstructions(file)
             => IsTrimOf(response'.body["instructions"], file.text)]_vars

C8_Witness ==
    /\ response.status = 200
    /\ "instructions" \in DOMAIN response.body
    /\ response.body["instructions"] = <<"a">>
    /\ file = FileOf(<<" ", "a", "\n">>, TRUE)

\* C9: a call under a name that is none of get_stock_info,
\* get_historical_prices, render_stock_chart, get_factsheet, get_disclaimer
\* never gets past name resolution, issues no backend request, and ends in
\* UnknownToolError.
C9_UnknownToolFailsWithoutBackend ==
    (/\ phase # "idle"
     /\ tool \notin {"get_stock_info", "get_historical_prices", "render_stock_chart",
                     "get_factsheet", "get_disclaimer"})
    => /\ phase \in {"received", "done"}
       /\ backendLog = <<>>
       /\ phase = "done" => (outcome = "UnknownToolError" /\ result = NoResult)

C9_Witness ==
    /\ phase = "done"
    /\ tool = "get_news"
    /\ outcome = "UnknownToolError"
    /\ backendLog = <<>>

\* the names each main module registers
StartupNames ==
    IF server = "root"
    THEN {"get_stock_info", "get_historical_prices", "render_stock_chart"}
    ELSE {"get_stock_info", "get_historical_prices", "render_stock_chart",
          "get_factsheet", "get_disclaimer"}

\* C10: a call is in progress only while the server is serving; while it is
\* serving the registry holds exactly the tools its main module registers,
\* one per name; no registration ever fails on a name already taken; and
\* once serving has begun the registry never changes and serving never ends.
C10_RegistrationPrecedesServing ==
    /\ [](phase # "idle" => pc = "serving")
    /\ [](pc = "serving"
          => /\ DOMAIN registry = StartupNames
             /\ regIdx = Cardinality(StartupNames)
             /\ \A n \in DOMAIN registry : registry[n] = n)
    /\ [](pc # "failed")
    /\ [][pc = "serving" => (registry' = registry /\ pc' = "serving")]_vars

C10_Witness ==
    /\ pc = "serving"
    /\ server = "stock-mcp"
    /\ phase = "awaiting"
    /\ tool = "get_factsheet"
    /\ Cardinality(DOMAIN registry) = 5

\* the tools whose handler fetches from a backend
FetchingTools ==
    {"get_stock_info", "get_historical_prices", "render_stock_chart", "get_factsheet"}

\* the backend request of the call in progress failed: it raised (or the
\* backend was unreachable), or for get_factsheet the status is not 2xx
BackendFailed ==
    /\ backendLog # <<>>
    /\ phase = "done"
    /\ \/ ~answer.ok
       \/ tool = "get_factsheet" /\ answer.status \notin 200..299

\* C11: a call to a fetching tool issues at most one backend request, and
\* when that request fails the call ends in an error, with a single request
\* issued (no retry) and no result or resource returned.
C11_BackendFailurePropagates ==
    /\ Len(backendLog) <= 1
    /\ (tool \in FetchingTools /\ BackendFailed)
       => /\ outcome \in {"UpstreamFetchError", "HTTPStatusError"}
          /\ result = [kind |-> "none"]
          /\ Len(backendLog) = 1

C11_Witness ==
    /\ tool = "get_factsheet"
    /\ BackendFailed
    /\ answer.ok
    /\ answer.status = 404
    /\ outcome = "HTTPStatusError"
    /\ Len(backendLog) = 1

\* C12: every resource returned by render_stock_chart is a text/html
\* resource under ui://data/chart/<SYMBOL>, and every resource returned by
\* get_factsheet is an application/pdf resource under
\* ui://data/factsheets/<SYMBOL>.pdf, where <SYMBOL> is the symbol of the call
\* and is made of uppercase letters only.
C12_ResourceUriAndMediaType ==
    (/\ phase = "done"
     /\ outcome = "ok"
     /\ tool \in {"render_stock_chart", "get_factsheet"})
    => /\ result.kind = "EmbeddedResource"
       /\ IsTicker(args.symbol.chars)
       /\ upper(args.symbol.chars) = args.symbol.chars
       /\ tool = "render_stock_chart"
          => /\ result.mimeType = "text/html"
             /\ result.uri = "ui://data/chart/" \o Join(args.symbol.chars)
       /\ tool = "get_factsheet"
          => /\ result.mimeType = "application/pdf"
             /\ result.uri =
                   "ui://data/factsheets/" \o Join(args.symbol.chars) \o ".pdf"

C12_Witness ==
    /\ phase = "done"
    /\ outcome = "ok"
    /\ tool = "get_factsheet"
    /\ args.symbol.chars = <<"A", "A">>
    /\ result.mimeType = "application/pdf"
    /\ result.uri = "ui://data/factsheets/AA.pdf"

\* what a call of tool `name` with arguments `a` ends with when it is the
\* only call and the backend answers `ans`
Alone(name, a, ans) ==
    IF name \notin DOMAIN registry
    THEN [outcome |-> "UnknownToolError", result |-> NoResult]
    ELSE IF ~validate(registry[name], a).ok
    THEN [outcome |-> "ValidationError", result |-> NoResult]
    ELSE IF ~Fetches(registry[name])
    THEN [outcome |-> "ok", result |-> DisclaimerResource]
    ELSE Finish(registry[name], validate(registry[name], a).req, ans)

\* C13: with several calls in flight, in any interleaving, a step of one call
\* changes the locals of that call only and leaves the registry as it is;
\* the request a call sends to the backend is the one built from its own
\* arguments; and the outcome and result of every finished call are those the
\* same call, alone, gets from the same backend answer.
C13_CallsAreIndependent ==
    /\ [][\A c \in CallIds :
             calls'[c] # calls[c]
             => /\ \A d \in CallIds \ {c} : calls'[d] = calls[d]
                /\ registry' = registry]_vars
    /\ [](\A c \in CallIds :
             calls[c].phase \in {"awaiting", "done"} /\ calls[c].backendLog # <<>>
             => calls[c].backendLog =
                   <<RequestOf(registry[calls[c].tool],
                               validate(registry[calls[c].tool], calls[c].args).req)>>)
    /\ [](\A c \in CallIds :
             calls[c].phase = "done"
             => /\ calls[c].outcome =
                      Alone(calls[c].tool, calls[c].args, calls[c].answer).outcome
                /\ calls[c].result =
                      Alone(calls[c].tool, calls[c].args, calls[c].answer).result)

\* a history call and a chart call in flight together, both answered and
\* neither returned yet
C13_Witness ==
    /\ calls[1].phase = "done"
    /\ calls[1].tool = "get_historical_prices"
    /\ calls[1].outcome = "ok"
    /\ calls[1].result.resolution = "1y"
    /\ calls[2].phase = "done"
    /\ calls[2].tool = "render_stock_chart"
    /\ calls[2].outcome = "ok"
    /\ calls[2].result.blob.payload.period = "1mo"
    /\ calls[1].answer # calls[2].answer

\* a finished get_historical_prices call that returned its result
HistoryReturned ==
    /\ phase = "done"
    /\ tool = "get_historical_prices"
    /\ outcome = "ok"
    /\ result.kind = "HistoricalPrices"

\* C14 as stated: the adjusted close of every bar of every result of
\* get_historical_prices is None, whatever columns the history frame carries.
C14_AsStated ==
    HistoryReturned
    => \A d \in DOMAIN result.bars : result.bars[d].adj_close = None

\* C14, amended: the adjusted close of every bar is None when the history
\* frame carries no 'Adj Close' column, and is the 'Adj Close' cell of the
\* bar's row (never None) when the frame carries that column.
C14_AdjCloseFollowsColumn ==
    HistoryReturned
    => \A d \in DOMAIN result.bars :
          IF "Adj Close" \in answer.columns
          THEN /\ result.bars[d].adj_close = Cell(LastRowOn(d), "Adj Close")
               /\ result.bars[d].adj_close # None
          ELSE result.bars[d].adj_close = None

C14_Witness ==
    /\ HistoryReturned
    /\ answer.columns = {"Close", "Adj Close"}
    /\ Len(answer.rows) = 1
    /\ answer.rows[1].base = Num(100)
    /\ result.bars["2024-01-02"].close = Num(100)
    /\ result.bars["2024-01-02"].adj_close = Num(103)

\* the calendar dates among the rows of the answer
RowDates == {answer.rows[i].ts.date : i \in 1..Len(answer.rows)}

\* C15: in a result of get_historical_prices built from a history frame that
\* carries at least one column, the keys of the bars are exactly the calendar
\* dates of the rows, so there are as many bars as distinct dates (fewer than
\* rows when rows share a date), and the bar of a date carries, for every
\* column of the frame, the value of the last row of that date in backend
\* order.
C15_OneBarPerDateLastRowWins ==
    (HistoryReturned /\ answer.ok /\ answer.columns # {})
    => /\ DOMAIN result.bars = RowDates
       /\ Cardinality(DOMAIN result.bars) = Cardinality(RowDates)
       /\ Cardinality(DOMAIN result.bars) <= Len(answer.rows)
       /\ \A d \in DOMAIN result.bars :
             \E i \in 1..Len(answer.rows) :
                /\ answer.rows[i].ts.date = d
                /\ \A j \in (i + 1)..Len(answer.rows) : answer.rows[j].ts.date # d
                /\ \A f \in {"open", "high", "low", "close", "volume"} :
                      BarColumn[f] \in answer.columns
                      => result.bars[d][f] = Cell(answer.rows[i], BarColumn[f])

\* two rows of one date with different values, and the one bar of that date
\* carrying the second row
C15_Witness ==
    /\ HistoryReturned
    /\ answer.columns = {"Open", "High", "Low", "Close", "Volume"}
    /\ Len(answer.rows) = 2
    /\ answer.rows[1].ts = [date |-> "2024-01-02", time |-> "09:30"]
    /\ answer.rows[2].ts = [date |-> "2024-01-02", time |-> "10:30"]
    /\ answer.rows[1].base = Num(100)
    /\ answer.rows[2].base = Num(150)
    /\ DOMAIN result.bars = {"2024-01-02"}
    /\ result.bars["2024-01-02"].close = Num(150)
    /\ result.bars["2024-01-02"].volume = Num(1500)

\* character c is the lowercase letter l or its uppercase
FoldsTo(c, l) == c = l \/ \E k \in 1..26 : LowerAZ[k] = l /\ UpperAZ[k] = c

\* chars spells the lowercase word, in any mix of cases
SpellsIgnoringCase(chars, word) ==
    /\ Len(chars) = Len(word)
    /\ \A i \in 1..Len(word) : FoldsTo(chars[i], word[i])

\* the template the claim assigns to a chart_type argument
TemplateFor(ct) ==
    IF ~ct.given THEN "candlestick"
    ELSE IF SpellsIgnoringCase(ct.chars, <<"l","i","n","e">>) THEN "line"
    ELSE IF SpellsIgnoringCase(ct.chars,
                               <<"c","a","n","d","l","e","s","t","i","c","k">>)
    THEN "candlestick"
    ELSE "area"

\* C16: a render_stock_chart call with a valid symbol is never rejected for
\* its chart_type, and when the backend answers it returns a page built on
\* the line template for 'line' in any case, on the candlestick template for
\* 'candlestick' in any case or no chart_type at all, and on the area
\* template for every other value.
C16_ChartTypeSelectsTemplate ==
    (phase = "done" /\ tool = "render_stock_chart" /\ IsTicker(args.symbol.chars))
    => /\ outcome \in {"ok", "UpstreamFetchError"}
       /\ answer.ok
          => /\ outcome = "ok"
             /\ Page.chart_script = TemplateFor(args.chart_type)
             /\ Page.chart_script \in {"line", "candlestick", "area"}

C16_Witness ==
    /\ phase = "done"
    /\ tool = "render_stock_chart"
    /\ args.chart_type = Given(<<"L","I","N","E">>)
    /\ outcome = "ok"
    /\ Page.chart_script = "line"

=============================================================================
